---- MODULE Spec2Model ----
(***************************************************************************)
(* Model of BoardGameIdeation.py ("Fight for Town Hall"): the two-player   *)
(* territory game on an 8x10 board with a 2x2 Town Hall in the centre.     *)
(* The state is the document persisted in events.json; every HTTP handler  *)
(* loads it, possibly changes it, and possibly saves it back.              *)
(***************************************************************************)
EXTENDS Integers, Sequences, FiniteSets, TLC

(* ----- Game config (BoardGameIdeation.py lines 9-20) ----- *)
ROWS == 8
COLS == 10
TOWNHALL_COLOR_DEFAULT == "#8e44ad"
PLAYER_1 == [id |-> 1, name |-> "Artist", color |-> "#e74c3c"]
PLAYER_2 == [id |-> 2, name |-> "Business Owner", color |-> "#3498db"]

CENTER_R == (ROWS \div 2) - 1
CENTER_C == (COLS \div 2) - 1
TOWNHALL_CELLS == {<<CENTER_R, CENTER_C>>, <<CENTER_R, CENTER_C + 1>>,
                   <<CENTER_R + 1, CENTER_C>>, <<CENTER_R + 1, CENTER_C + 1>>}

(* Python's None in the integer-valued fields bonus_player and winner, and *)
(* the "tie" value of winner, as integers distinct from the player ids.    *)
None == 0
TIE == 3

DEFAULT_STATE ==
  [game_name |-> "Fight for Town Hall",
   setup_text |-> "",
   board_rows |-> ROWS,
   board_cols |-> COLS,
   players |-> << [id |-> PLAYER_1.id, name |-> PLAYER_1.name, color |-> PLAYER_1.color, score |-> 0],
                  [id |-> PLAYER_2.id, name |-> PLAYER_2.name, color |-> PLAYER_2.color, score |-> 0] >>,
   turn |-> PLAYER_1.id,
   pieces |-> << >>,
   bonus_available |-> FALSE,
   bonus_player |-> None,
   game_over |-> FALSE,
   winner |-> None,
   townhall_color |-> TOWNHALL_COLOR_DEFAULT]

(* ----- Bounds of the explored games ----- *)
\* number of cells left free by the scripted game (the cells players claim in any order)
Window == 5
\* length of the scripted opening after which free play may also start
Opening == 8
\* number of move requests handled at the same time
MaxThreads == 2

VARIABLES
  file_exists,   \* STATE_FILE.exists()
  file,          \* the document stored in events.json (meaningful when file_exists)
  request,       \* the last request handled: [op, row, col]
  response,      \* the reply to it: [code, body]
  inflight       \* per server thread, the move request it is handling: [pc, row, col, state, reply]

vars == <<file_exists, file, request, response, inflight>>

(* ----- Persistence ----- *)
load_state(exists, doc) == IF exists THEN doc ELSE DEFAULT_STATE

\* the state every handler starts from
cur == load_state(file_exists, file)

(* ----- Geometry and occupancy helpers ----- *)
cell_taken_last_only(state, r, c) ==
  Len(state.pieces) > 0
  /\ state.pieces[Len(state.pieces)].row = r /\ state.pieces[Len(state.pieces)].col = c

cell_taken(state, r, c) ==
  \E i \in 1..Len(state.pieces) : state.pieces[i].row = r /\ state.pieces[i].col = c

is_townhall_cell(r, c) == <<r, c>> \in TOWNHALL_CELLS

clickable_cell_blocked_ok(r, c) ==
  (0 <= r /\ r < ROWS) /\ (0 <= c /\ c < COLS)

clickable_cell(r, c) ==
  (0 <= r /\ r < ROWS) /\ (0 <= c /\ c < COLS) /\ ~is_townhall_cell(r, c)

\* keys a dict lookup can be asked for on the board
BoardCells == (0..(ROWS - 1)) \X (0..(COLS - 1))

\* dict[(r,c)] = player_id, filled in placement order so that the latest
\* piece on a cell wins; a missing key reads as None (occ.get)
occupancy_map(state) ==
  [rc \in BoardCells |->
     LET at == {i \in 1..Len(state.pieces) :
                  state.pieces[i].row = rc[1] /\ state.pieces[i].col = rc[2]}
     IN IF at = {} THEN None
        ELSE state.pieces[CHOOSE i \in at : \A j \in at : j <= i].player]

RECURSIVE count_from(_, _, _, _, _, _)
count_from(occ, rr, cc, dr, dc, pid) ==
  IF (0 <= rr /\ rr < ROWS) /\ (0 <= cc /\ cc < COLS) /\ ~is_townhall_cell(rr, cc)
     /\ occ[<<rr, cc>>] = pid
  THEN 1 + count_from(occ, rr + dr, cc + dc, dr, dc, pid)
  ELSE 0

count_in_direction_from_start(occ, r, c, dr, dc, pid) == count_from(occ, r, c, dr, dc, pid)

count_in_direction(occ, r, c, dr, dc, pid) == count_from(occ, r + dr, c + dc, dr, dc, pid)

directions == << <<0, 1>>, <<1, 0>>, <<1, 1>>, <<1, -1>> >>

made_five_in_a_row_one_sided(state, r, c, pid) ==
  LET occ == [occupancy_map(state) EXCEPT ![<<r, c>>] = pid]
  IN \E k \in 1..Len(directions) :
       LET dr == directions[k][1]
           dc == directions[k][2]
           right == count_in_direction(occ, r, c, dr, dc, pid)
       IN 1 + right >= 5

made_five_in_a_row_six(state, r, c, pid) ==
  LET occ == [occupancy_map(state) EXCEPT ![<<r, c>>] = pid]
  IN \E k \in 1..Len(directions) :
       LET dr == directions[k][1]
           dc == directions[k][2]
           left == count_in_direction(occ, r, c, -dr, -dc, pid)
           right == count_in_direction(occ, r, c, dr, dc, pid)
       IN 1 + left + right >= 6

made_five_in_a_row(state, r, c, pid) ==
  LET occ == [occupancy_map(state) EXCEPT ![<<r, c>>] = pid]
  IN \E k \in 1..Len(directions) :
       LET dr == directions[k][1]
           dc == directions[k][2]
           left == count_in_direction(occ, r, c, -dr, -dc, pid)
           right == count_in_direction(occ, r, c, dr, dc, pid)
       IN 1 + left + right >= 5

total_clickable_cells == ROWS * COLS - Cardinality(TOWNHALL_CELLS)

filled_board_strict(state) == Len(state.pieces) > total_clickable_cells

filled_board(state) == Len(state.pieces) >= total_clickable_cells

\* counts[pid] of finalize_game_if_complete
claims(state, pid) == Cardinality({i \in 1..Len(state.pieces) : state.pieces[i].player = pid})

finalize_game_if_complete_no_flag(state) ==
  IF ~filled_board(state) THEN state
  ELSE LET c1 == claims(state, PLAYER_1.id)
           c2 == claims(state, PLAYER_2.id)
       IN IF c1 > c2
          THEN [state EXCEPT !.winner = PLAYER_1.id, !.townhall_color = PLAYER_1.color]
          ELSE IF c2 > c1
          THEN [state EXCEPT !.winner = PLAYER_2.id, !.townhall_color = PLAYER_2.color]
          ELSE [state EXCEPT !.winner = TIE, !.townhall_color = TOWNHALL_COLOR_DEFAULT]

finalize_game_if_complete_ge(state) ==
  IF ~filled_board(state) THEN state
  ELSE LET c1 == claims(state, PLAYER_1.id)
           c2 == claims(state, PLAYER_2.id)
           decided ==
             IF c1 >= c2
             THEN [state EXCEPT !.winner = PLAYER_1.id, !.townhall_color = PLAYER_1.color]
             ELSE IF c2 > c1
             THEN [state EXCEPT !.winner = PLAYER_2.id, !.townhall_color = PLAYER_2.color]
             ELSE [state EXCEPT !.winner = TIE, !.townhall_color = TOWNHALL_COLOR_DEFAULT]
       IN [decided EXCEPT !.game_over = TRUE]

finalize_game_if_complete(state) ==
  IF ~filled_board(state) THEN state
  ELSE LET c1 == claims(state, PLAYER_1.id)
           c2 == claims(state, PLAYER_2.id)
           decided ==
             IF c1 > c2
             THEN [state EXCEPT !.winner = PLAYER_1.id, !.townhall_color = PLAYER_1.color]
             ELSE IF c2 > c1
             THEN [state EXCEPT !.winner = PLAYER_2.id, !.townhall_color = PLAYER_2.color]
             ELSE [state EXCEPT !.winner = TIE, !.townhall_color = TOWNHALL_COLOR_DEFAULT]
       IN [decided EXCEPT !.game_over = TRUE]

(* ----- Handlers: each maps the file and the request to the new file and the reply ----- *)
Reply(code, body) == [code |-> code, body |-> body]

Outcome(exists, doc, resp) == [exists |-> exists, doc |-> doc, response |-> resp]

other_player_next_id(pid) == pid + 1

other_player(pid) == IF pid = 1 THEN 2 ELSE 1

add_score_no_break(players, pid) ==
  [i \in 1..Len(players) |-> [players[i] EXCEPT !.score = @ + 1]]

\* for pl in state["players"]: if pl["id"] == pid: pl["score"] += 1; break
add_score(players, pid) ==
  LET hits == {i \in 1..Len(players) : players[i].id = pid}
  IN IF hits = {} THEN players
     ELSE LET first == CHOOSE i \in hits : \A j \in hits : i <= j
          IN [players EXCEPT ![first].score = @ + 1]

place_piece_overwrite(state, r, c, pid) ==
  [state EXCEPT !.pieces = IF Len(@) = 0 THEN <<[row |-> r, col |-> c, player |-> pid]>>
                           ELSE [@ EXCEPT ![Len(@)] = [row |-> r, col |-> c, player |-> pid]]]

place_piece_front(state, r, c, pid) ==
  [state EXCEPT !.pieces = <<[row |-> r, col |-> c, player |-> pid]>> \o @]

place_piece(state, r, c, pid) ==
  [state EXCEPT !.pieces = Append(@, [row |-> r, col |-> c, player |-> pid])]

bonus_logic_stale_owner(state, five, pid) ==
  IF five /\ ~state.bonus_available
  THEN [state EXCEPT !.bonus_available = TRUE, !.bonus_player = pid]
  ELSE IF state.bonus_available /\ state.bonus_player = pid
       THEN [state EXCEPT !.bonus_available = FALSE, !.turn = other_player(pid)]
       ELSE [state EXCEPT !.turn = other_player(pid)]

bonus_logic_grant_switch(state, five, pid) ==
  IF five /\ ~state.bonus_available
  THEN [state EXCEPT !.bonus_available = TRUE, !.bonus_player = pid,
                     !.turn = other_player(pid)]
  ELSE IF state.bonus_available /\ state.bonus_player = pid
       THEN [state EXCEPT !.bonus_available = FALSE, !.bonus_player = None,
                          !.turn = other_player(pid)]
       ELSE [state EXCEPT !.turn = other_player(pid)]

bonus_logic_keep_turn(state, five, pid) ==
  IF five /\ ~state.bonus_available
  THEN [state EXCEPT !.bonus_available = TRUE, !.bonus_player = pid]
  ELSE IF state.bonus_available /\ state.bonus_player = pid
       THEN [state EXCEPT !.bonus_available = FALSE, !.bonus_player = None]
       ELSE [state EXCEPT !.turn = other_player(pid)]

bonus_logic_stacked(state, five, pid) ==
  IF five
  THEN [state EXCEPT !.bonus_available = TRUE, !.bonus_player = pid]
  ELSE IF state.bonus_available /\ state.bonus_player = pid
       THEN [state EXCEPT !.bonus_available = FALSE, !.bonus_player = None,
                          !.turn = other_player(pid)]
       ELSE [state EXCEPT !.turn = other_player(pid)]

bonus_logic(state, five, pid) ==
  IF five /\ ~state.bonus_available
  THEN [state EXCEPT !.bonus_available = TRUE, !.bonus_player = pid]
  ELSE IF state.bonus_available /\ state.bonus_player = pid
       THEN [state EXCEPT !.bonus_available = FALSE, !.bonus_player = None,
                          !.turn = other_player(pid)]
       ELSE [state EXCEPT !.turn = other_player(pid)]

\* lines 309-341 of move(): the accepted placement
apply_move(state, r, c) ==
  LET pid == state.turn
      placed == place_piece(state, r, c, pid)
      scored == [placed EXCEPT !.players = add_score(@, pid)]
      five == made_five_in_a_row(scored, r, c, pid)
      turned == bonus_logic(scored, five, pid)
  IN finalize_game_if_complete(turned)

move_handler_late_check(exists, doc, r, c) ==
  LET state == load_state(exists, doc)
  IN IF state.game_over
     THEN Outcome(exists, doc, Reply(400, "Game is over."))
     ELSE IF ~clickable_cell(r, c)
     THEN Outcome(exists, doc, Reply(400, "That square is not clickable."))
     ELSE IF cell_taken(state, r, c)
     THEN Outcome(TRUE, apply_move(state, r, c), Reply(400, "Cell already taken"))
     ELSE Outcome(TRUE, apply_move(state, r, c), Reply(200, "json"))

move_handler_cell_first(exists, doc, r, c) ==
  LET state == load_state(exists, doc)
  IN IF ~clickable_cell(r, c)
     THEN Outcome(exists, doc, Reply(400, "That square is not clickable."))
     ELSE IF cell_taken(state, r, c)
     THEN Outcome(exists, doc, Reply(400, "Cell already taken"))
     ELSE IF state.game_over
     THEN Outcome(exists, doc, Reply(400, "Game is over."))
     ELSE Outcome(TRUE, apply_move(state, r, c), Reply(200, "json"))

move_handler(exists, doc, r, c) ==
  LET state == load_state(exists, doc)
  IN IF state.game_over
     THEN Outcome(exists, doc, Reply(400, "Game is over."))
     ELSE IF ~clickable_cell(r, c)
     THEN Outcome(exists, doc, Reply(400, "That square is not clickable."))
     ELSE IF cell_taken(state, r, c)
     THEN Outcome(exists, doc, Reply(400, "Cell already taken"))
     ELSE Outcome(TRUE, apply_move(state, r, c), Reply(200, "json"))

reset_handler_shallow(exists, doc) ==
  Outcome(TRUE, [DEFAULT_STATE EXCEPT !.pieces = load_state(exists, doc).pieces,
                                      !.players = load_state(exists, doc).players],
          Reply(200, "json"))

\* json.loads(json.dumps(DEFAULT_STATE)): the document holds only strings,
\* integers, booleans, None, lists and string-keyed dicts, which the JSON
\* round trip returns unchanged as a fresh copy
reset_handler(exists, doc) == Outcome(TRUE, DEFAULT_STATE, Reply(200, "json"))

save_handler(exists, doc) == Outcome(TRUE, load_state(exists, doc), Reply(204, ""))

get_state_handler(exists, doc) == Outcome(exists, doc, Reply(200, "json"))

home_handler(exists, doc) == Outcome(exists, doc, Reply(200, "html"))

(* ----- The games explored ----- *)
\* One complete legal game: an opening that gives each player four in a
\* line, the rest of the board in reverse reading order, and last the cells
\* that the players claim in every possible order.
Script ==
    << <<0, 0>>, <<1, 9>>, <<0, 1>>, <<2, 9>>, <<0, 2>>, <<3, 9>>,
       <<0, 3>>, <<4, 9>>, <<7, 9>>, <<7, 8>>, <<7, 7>>, <<7, 6>>,
       <<7, 5>>, <<7, 4>>, <<7, 3>>, <<7, 2>>, <<7, 1>>, <<6, 9>>,
       <<6, 8>>, <<6, 7>>, <<6, 6>>, <<6, 5>>, <<6, 4>>, <<6, 3>>,
       <<6, 2>>, <<6, 1>>, <<6, 0>>, <<5, 8>>, <<5, 7>>, <<5, 6>>,
       <<5, 5>>, <<5, 4>>, <<5, 3>>, <<5, 2>>, <<5, 1>>, <<5, 0>>,
       <<4, 8>>, <<4, 7>>, <<4, 6>>, <<4, 3>>, <<4, 2>>, <<4, 1>>,
       <<4, 0>>, <<3, 8>>, <<3, 7>>, <<3, 6>>, <<3, 3>>, <<3, 2>>,
       <<3, 1>>, <<3, 0>>, <<2, 8>>, <<2, 7>>, <<2, 6>>, <<2, 5>>,
       <<2, 4>>, <<2, 3>>, <<2, 2>>, <<2, 1>>, <<2, 0>>, <<1, 8>>,
       <<1, 7>>, <<1, 6>>, <<1, 5>>, <<1, 4>>, <<1, 3>>, <<1, 2>>,
       <<1, 1>>, <<1, 0>>, <<0, 8>>, <<0, 7>>, <<0, 6>>, <<0, 4>>,
       <<0, 5>>, <<0, 9>>, <<5, 9>>, <<7, 0>> >>

ScriptEnd == Len(Script) - Window

WindowCells == {Script[i] : i \in (ScriptEnd + 1)..Len(Script)}

\* free play starts from the empty board, after the opening, or near the end
PausePoints == {0, Opening, ScriptEnd}

\* one point off each side of the board
OutOfBounds == {<<-1, 0>>, <<0, -1>>, <<ROWS, 0>>, <<0, COLS>>}

\* the pieces so far are exactly the first moves of the script
OnScript(state) ==
  /\ Len(state.pieces) <= ScriptEnd
  /\ \A i \in 1..Len(state.pieces) :
        <<state.pieces[i].row, state.pieces[i].col>> = Script[i]

\* the clicks tried in a state: every blocked cell, a point off each side of
\* the board, the cells of the first and the latest piece (already claimed),
\* the next cell of the script, and the free window cells
Clicks(state) ==
  LET n == Len(state.pieces)
  IN TOWNHALL_CELLS \cup OutOfBounds
     \cup {<<state.pieces[i].row, state.pieces[i].col>> : i \in {1, n} \cap (1..n)}
     \cup (IF OnScript(state) /\ n < ScriptEnd THEN {Script[n + 1]} ELSE {})
     \cup (IF ~OnScript(state) \/ n \in PausePoints
           THEN {rc \in WindowCells : ~cell_taken(state, rc[1], rc[2])} ELSE {})

(* ----- State machine ----- *)
Threads == 1..MaxThreads

\* a thread of the server with no request in hand
IdleThread == [pc |-> "idle", row |-> 0, col |-> 0, state |-> DEFAULT_STATE, reply |-> Reply(0, "")]

Init ==
  /\ file_exists = FALSE
  /\ file = DEFAULT_STATE
  /\ request = [op |-> "none", row |-> 0, col |-> 0]
  /\ response = Reply(0, "")
  /\ inflight = [t \in Threads |-> IdleThread]

\* a request handled from start to end with no other request in between
Handle(op, r, c, out) ==
  /\ request' = [op |-> op, row |-> r, col |-> c]
  /\ file_exists' = out.exists
  /\ file' = out.doc
  /\ response' = out.response
  /\ UNCHANGED inflight

move == \E rc \in Clicks(cur) : Handle("move", rc[1], rc[2], move_handler(file_exists, file, rc[1], rc[2]))

reset == Handle("reset", 0, 0, reset_handler(file_exists, file))

save == Handle("save", 0, 0, save_handler(file_exists, file))

get_state == Handle("state", 0, 0, get_state_handler(file_exists, file))

home == Handle("home", 0, 0, home_handler(file_exists, file))

Next == move \/ reset \/ save \/ get_state \/ home

Spec == Init /\ [][Next]_vars

(* ----- Games in which legal moves keep being made ----- *)
\* the free cells clicked in a state: the next cell of the script, and at its
\* end the window cells that are still free
LiveClicks(state) ==
  LET n == Len(state.pieces)
  IN IF OnScript(state) /\ n < ScriptEnd THEN {Script[n + 1]}
     ELSE {rc \in WindowCells : ~cell_taken(state, rc[1], rc[2])}

\* a move on a free cell
live_place ==
  \E rc \in LiveClicks(cur) :
    Handle("move", rc[1], rc[2], move_handler(file_exists, file, rc[1], rc[2]))

\* one more click, on the cell of the latest piece, when the board is full
live_retry ==
  /\ Len(cur.pieces) >= total_clickable_cells
  /\ LET p == cur.pieces[Len(cur.pieces)]
     IN Handle("move", p.row, p.col, move_handler(file_exists, file, p.row, p.col))

LiveNext == live_place \/ live_retry

\* live_place can be taken: some click of LiveClicks is on a free cell and
\* the game is not over
CanPlace == ~cur.game_over /\ LiveClicks(cur) # {}

\* players keep making a legal move as long as there is one: weak fairness
\* of live_place, with its enabling condition written out as CanPlace
LiveFair == []<>(~CanPlace) \/ []<><<live_place>>_vars

LiveSpec == Init /\ [][LiveNext]_vars /\ LiveFair

(* ----- Move requests handled by several threads at once ----- *)
\* The server handles each request in its own thread and nothing orders
\* load_state, the work on the loaded copy, and save_state of one request
\* with respect to those of another.
ConcCells == {<<0, 0>>, <<0, 1>>, <<1, 0>>, <<3, 4>>}

\* payload read and state = load_state()
conc_load(t) ==
  \E rc \in ConcCells :
    /\ inflight[t].pc = "idle"
    /\ inflight' = [inflight EXCEPT ![t] = [pc |-> "loaded", row |-> rc[1], col |-> rc[2],
                                            state |-> load_state(file_exists, file),
                                            reply |-> Reply(0, "")]]
    /\ UNCHANGED <<file_exists, file, request, response>>

\* the checks and, if they pass, the changes to the loaded copy
conc_apply(t) ==
  /\ inflight[t].pc = "loaded"
  /\ LET out == move_handler(TRUE, inflight[t].state, inflight[t].row, inflight[t].col)
     IN inflight' = [inflight EXCEPT ![t] =
                       IF out.response.code = 400
                       THEN [@ EXCEPT !.pc = "done", !.reply = out.response]
                       ELSE [@ EXCEPT !.pc = "applied", !.state = out.doc]]
  /\ UNCHANGED <<file_exists, file, request, response>>

\* save_state(state) and the reply
conc_save(t) ==
  /\ inflight[t].pc = "applied"
  /\ file_exists' = TRUE
  /\ file' = inflight[t].state
  /\ inflight' = [inflight EXCEPT ![t] = [@ EXCEPT !.pc = "done", !.reply = Reply(200, "json")]]
  /\ UNCHANGED <<request, response>>

ConcNext == \E t \in Threads : conc_load(t) \/ conc_apply(t) \/ conc_save(t)

ConcSpec == Init /\ [][ConcNext]_vars

(* ----- Vocabulary of the properties ----- *)
winLength == 5

Blocked == {<<3, 4>>, <<3, 5>>, <<4, 4>>, <<4, 5>>}

InBounds(r, c) == r \in 0..(ROWS - 1) /\ c \in 0..(COLS - 1)

Occupied(state, r, c) ==
  \E i \in 1..Len(state.pieces) : <<state.pieces[i].row, state.pieces[i].col>> = <<r, c>>

Owns(state, r, c, pid) ==
  \E i \in 1..Len(state.pieces) : state.pieces[i] = [row |-> r, col |-> c, player |-> pid]

Score(state, pid) == state.players[pid].score

Opponent(pid) == 3 - pid

TotalPlaceable == ROWS * COLS - Cardinality(Blocked)

Axes == {<<0, 1>>, <<1, 0>>, <<1, 1>>, <<1, -1>>}

\* (r, c) lies on five consecutive cells of one axis that pid owns in state
OnRun(state, r, c, pid) ==
  \E d \in Axes, k \in 0..(winLength - 1) :
    \A j \in 0..(winLength - 1) :
      LET rr == r + (j - k) * d[1]
          cc == c + (j - k) * d[2]
      IN InBounds(rr, cc) /\ <<rr, cc>> \notin Blocked /\ Owns(state, rr, cc, pid)

LastPiece(state) == state.pieces[Len(state.pieces)]

\* the step is an accepted move
Placed == request'.op = "move" /\ response'.code = 200

Unchanged == cur' = cur /\ file_exists' = file_exists /\ file' = file

(* ----- Properties ----- *)

\* C1: a move on a free, in-bounds, non-blocked cell while the game is not
\* over succeeds; the new pieces are the old ones followed by the one piece
\* {row, col, owner = old turn}; the mover's score grows by 1 and the other
\* player's score is unchanged.
C1_LegalMoveAppends ==
  [][LET r == request'.row
         c == request'.col
     IN (request'.op = "move" /\ ~cur.game_over /\ InBounds(r, c)
           /\ <<r, c>> \notin Blocked /\ ~Occupied(cur, r, c))
        => /\ response'.code = 200
           /\ cur'.pieces = Append(cur.pieces, [row |-> r, col |-> c, player |-> cur.turn])
           /\ Score(cur', cur.turn) = Score(cur, cur.turn) + 1
           /\ Score(cur', Opponent(cur.turn)) = Score(cur, Opponent(cur.turn))]_vars

C1_Witness ==
  /\ request.op = "move" /\ response.code = 200
  /\ Len(cur.pieces) >= 3
  /\ <<LastPiece(cur).row, LastPiece(cur).col>> = <<request.row, request.col>>
  /\ Score(cur, 1) > 0 /\ Score(cur, 2) > 0

\* C2: a move that is rejected (game over, cell not placeable, or cell
\* occupied) gets an error reply and leaves every field of the state, and the
\* file, as they were; on an occupied cell the pieces and scores do not change.
C2_RejectedMoveChangesNothing ==
  [][LET r == request'.row
         c == request'.col
     IN (request'.op = "move"
           /\ (cur.game_over \/ ~InBounds(r, c) \/ <<r, c>> \in Blocked \/ Occupied(cur, r, c)))
        => /\ response'.code = 400
           /\ Unchanged
           /\ Len(cur'.pieces) = Len(cur.pieces)
           /\ \A pid \in {1, 2} : Score(cur', pid) = Score(cur, pid)]_vars

C2_Witness ==
  /\ request.op = "move" /\ response = Reply(400, "Cell already taken")
  /\ Owns(cur, request.row, request.col, 2)
  /\ ~cur.game_over

\* C3: once game_over is true every move, whatever its coordinates, is
\* answered with the game-over error and changes nothing; game_over and
\* winner keep their values until a reset.
C3_GameOverRejectsAll ==
  [][cur.game_over =>
       /\ request'.op = "move" => (response' = Reply(400, "Game is over.") /\ Unchanged)
       /\ request'.op # "reset" => (cur'.game_over /\ cur'.winner = cur.winner)]_vars

C3_Witness ==
  /\ cur.game_over
  /\ request.op = "move" /\ response = Reply(400, "Game is over.")
  /\ Occupied(cur, request.row, request.col)

\* C4 as stated: a move on a blocked cell is always answered with the
\* not-placeable error, also when the game is over.
C4_BlockedAlwaysNotPlaceable ==
  (request.op = "move" /\ <<request.row, request.col>> \in Blocked)
    => response = Reply(400, "That square is not clickable.")

\* C4 amended: a move on a blocked cell is always rejected and changes
\* nothing; the error is not-placeable while the game is not over and
\* game-over once it is.
C4_BlockedAlwaysRejected ==
  [][(request'.op = "move" /\ <<request'.row, request'.col>> \in Blocked)
       => /\ response' = Reply(400, IF cur.game_over THEN "Game is over."
                                    ELSE "That square is not clickable.")
          /\ Unchanged]_vars

C4_Witness ==
  /\ request.op = "move" /\ <<request.row, request.col>> \in Blocked
  /\ cur.game_over /\ response = Reply(400, "Game is over.")

\* C5 as stated: every accepted move whose piece lies on five same-owner
\* pieces in a line leaves a bonus pending for the mover and the turn with
\* the mover.
C5_RunAlwaysGrantsBonus ==
  [][(Placed /\ OnRun(cur', request'.row, request'.col, cur.turn))
       => (cur'.bonus_available /\ cur'.bonus_player = cur.turn /\ cur'.turn = cur.turn)]_vars

\* C5 amended: an accepted move made while no bonus is pending whose piece
\* lies on five same-owner pieces in a line leaves a bonus pending for the
\* mover and the turn with the mover.
C5_RunGrantsBonusWhenNonePending ==
  [][(Placed /\ ~cur.bonus_available /\ OnRun(cur', request'.row, request'.col, cur.turn))
       => (cur'.bonus_available /\ cur'.bonus_player = cur.turn /\ cur'.turn = cur.turn)]_vars

C5_Witness ==
  /\ request.op = "move" /\ response.code = 200
  /\ cur.bonus_available /\ cur.bonus_player = cur.turn
  /\ LastPiece(cur).player = cur.turn
  /\ OnRun(cur, request.row, request.col, cur.turn)
  /\ ~cur.game_over

\* C6: with a bonus pending for P, the next accepted move is P's, clears the
\* bonus and passes the turn to the other player, also when it completes
\* another run of five.
C6_BonusMoveConsumesAndSwitches ==
  [][(Placed /\ cur.bonus_available)
       => /\ cur.bonus_player = cur.turn
          /\ LastPiece(cur').player = cur.turn
          /\ ~cur'.bonus_available /\ cur'.bonus_player = None
          /\ cur'.turn = Opponent(cur.turn)]_vars

\* the bonus move itself completed a run
C6_Witness ==
  /\ request.op = "move" /\ response.code = 200
  /\ Len(cur.pieces) >= 2
  /\ cur.pieces[Len(cur.pieces) - 1].player = LastPiece(cur).player
  /\ OnRun(cur, request.row, request.col, LastPiece(cur).player)
  /\ ~cur.bonus_available /\ cur.bonus_player = None
  /\ cur.turn = Opponent(LastPiece(cur).player)

\* C7: with no bonus pending, an accepted move by P keeps the turn with P and
\* leaves a bonus pending for P exactly when it completes a run of five;
\* otherwise the turn passes and no bonus is pending.
C7_NormalMoveTransition ==
  [][(Placed /\ ~cur.bonus_available)
       => IF OnRun(cur', request'.row, request'.col, cur.turn)
          THEN cur'.turn = cur.turn /\ cur'.bonus_available /\ cur'.bonus_player = cur.turn
          ELSE cur'.turn = Opponent(cur.turn) /\ ~cur'.bonus_available
               /\ cur'.bonus_player = None]_vars

\* a normal move next to three own pieces that does not complete a run
C7_Witness ==
  /\ request.op = "move" /\ response.code = 200
  /\ ~cur.bonus_available
  /\ cur.turn = Opponent(LastPiece(cur).player)
  /\ Len(cur.pieces) >= 2
  /\ cur.pieces[Len(cur.pieces) - 1].player # LastPiece(cur).player
  /\ ~OnRun(cur, request.row, request.col, LastPiece(cur).player)
  /\ \E i \in 1..Len(cur.pieces) : cur.pieces[i].player = 1 /\ OnRun(cur, cur.pieces[i].row, cur.pieces[i].col, 1)

\* C8: the move that fills the board sets winner to the player with the
\* strictly greater score, or the tie value when the scores are equal, and
\* townhall_color to that winner's color, or the default on a tie.
C8_FillingMoveDecidesWinner ==
  [][(Placed /\ Len(cur'.pieces) = TotalPlaceable)
       => LET s1 == Score(cur', 1)
              s2 == Score(cur', 2)
          IN /\ cur'.game_over
             /\ s1 > s2 => (cur'.winner = 1 /\ cur'.townhall_color = PLAYER_1.color)
             /\ s2 > s1 => (cur'.winner = 2 /\ cur'.townhall_color = PLAYER_2.color)
             /\ s1 = s2 => (cur'.winner = TIE /\ cur'.townhall_color = TOWNHALL_COLOR_DEFAULT)]_vars

\* a tie after a game with bonus moves
C8_Witness ==
  /\ request.op = "move" /\ response.code = 200
  /\ Len(cur.pieces) = TotalPlaceable
  /\ cur.winner = TIE /\ Score(cur, 1) = Score(cur, 2)
  /\ \E i \in 1..(Len(cur.pieces) - 1) : cur.pieces[i].player = cur.pieces[i + 1].player

C8_WitnessPlayer1 == cur.game_over /\ cur.winner = 1 /\ Score(cur, 1) > Score(cur, 2)

C8_WitnessPlayer2 == cur.game_over /\ cur.winner = 2 /\ Score(cur, 2) > Score(cur, 1)

\* C9: game_over is true exactly when the number of pieces is
\* rows*cols - |blocked cells| = 76.
C9_GameOverIffFull ==
  /\ TotalPlaceable = 76
  /\ cur.game_over <=> (Len(cur.pieces) = TotalPlaceable)

C9_Witness == cur.game_over /\ Len(cur.pieces) = 76 /\ request.op = "state"

\* C10: winner is a player or the tie value exactly when game_over is true,
\* and is none while game_over is false.
C10_WinnerIffGameOver ==
  /\ cur.winner \in {None, 1, 2, TIE}
  /\ (cur.winner \in {1, 2, TIE}) <=> cur.game_over
  /\ ~cur.game_over => cur.winner = None

C10_Witness == cur.game_over /\ cur.winner \in {1, 2, TIE} /\ request.op = "save"

\* C11: each player's stored score equals the number of pieces that player
\* owns, so the two scores add up to the number of pieces.
C11_ScoreIsPieceCount ==
  /\ \A pid \in {1, 2} :
       Score(cur, pid) = Cardinality({i \in 1..Len(cur.pieces) : cur.pieces[i].player = pid})
  /\ Score(cur, 1) + Score(cur, 2) = Len(cur.pieces)

\* unequal, non-zero scores after a bonus move
C11_Witness ==
  /\ Score(cur, 1) > Score(cur, 2) + 1 /\ Score(cur, 2) > 0
  /\ request.op = "move" /\ response.code = 200

\* C12: the pieces lie on pairwise distinct cells, each in bounds and not
\* blocked, so there are at most rows*cols - |blocked| of them.
C12_PiecesOnDistinctPlaceableCells ==
  LET cells == {<<cur.pieces[i].row, cur.pieces[i].col>> : i \in 1..Len(cur.pieces)}
  IN /\ Cardinality(cells) = Len(cur.pieces)
     /\ \A rc \in cells : InBounds(rc[1], rc[2]) /\ rc \notin Blocked
     /\ Len(cur.pieces) <= TotalPlaceable

\* a full board right after a click on an occupied cell was refused
C12_Witness ==
  /\ Len(cur.pieces) = TotalPlaceable
  /\ request.op = "move" /\ response.code = 400
  /\ Occupied(cur, request.row, request.col)
  /\ \A rc \in Blocked : ~Occupied(cur, rc[1], rc[2])

\* C13: a reset from any state yields exactly the default state: no pieces,
\* both scores 0, turn = player 1, no bonus, not over, no winner, the default
\* Town Hall colour.
C13_ResetYieldsDefault ==
  [][request'.op = "reset"
       => /\ cur' = DEFAULT_STATE
          /\ cur'.pieces = << >>
          /\ Score(cur', 1) = 0 /\ Score(cur', 2) = 0
          /\ cur'.turn = 1
          /\ ~cur'.bonus_available /\ cur'.bonus_player = None
          /\ ~cur'.game_over /\ cur'.winner = None
          /\ cur'.townhall_color = "#8e44ad"
          /\ response'.code = 200]_vars

C13_Witness ==
  /\ request.op = "reset" /\ response.code = 200
  /\ file_exists /\ file.pieces = << >> /\ file.turn = 1

\* C14: bonus_available is true exactly when bonus_player is a player id.
C14_BonusFlagIffOwner ==
  /\ cur.bonus_player \in {None, 1, 2}
  /\ cur.bonus_available <=> (cur.bonus_player \in {1, 2})

C14_Witness == cur.bonus_available /\ cur.bonus_player = 2 /\ ~cur.game_over

\* C15: while the game is not over, turn is player 1 or player 2.
C15_TurnIsPlayer == ~cur.game_over => cur.turn \in {1, 2}

C15_Witness ==
  /\ ~cur.game_over /\ cur.turn = 2
  /\ request.op = "move" /\ response.code = 200
  /\ LastPiece(cur).player = 1

\* C19: whenever a bonus is pending its owner is the player to move, so no
\* move is ever made with a bonus pending for the other player.
C19_BonusOwnerIsMover ==
  cur.bonus_available => (cur.bonus_player = cur.turn /\ cur.turn \in {1, 2})

C19_Witness ==
  /\ cur.bonus_available /\ cur.bonus_player = 1 /\ cur.turn = 1
  /\ LastPiece(cur).player = 1 /\ ~cur.game_over

\* C20: the pieces never hold three adjacent entries of the same owner.
C20_NoThreeInSuccession ==
  \A i \in 1..(Len(cur.pieces) - 2) :
    ~(cur.pieces[i].player = cur.pieces[i + 1].player
      /\ cur.pieces[i + 1].player = cur.pieces[i + 2].player)

\* a bonus move that completed a run, followed by the other player's move
C20_Witness ==
  /\ Len(cur.pieces) >= 3
  /\ LET n == Len(cur.pieces)
     IN /\ cur.pieces[n - 2].player = cur.pieces[n - 1].player
        /\ cur.pieces[n].player # cur.pieces[n - 1].player
        /\ OnRun([cur EXCEPT !.pieces = SubSeq(@, 1, n - 1)],
                 cur.pieces[n - 1].row, cur.pieces[n - 1].col, cur.pieces[n - 1].player)

\* the board of state with one more piece of pid at (r, c)
WithPiece(state, r, c, pid) ==
  [state EXCEPT !.pieces = Append(@, [row |-> r, col |-> c, player |-> pid])]

\* cells a piece could be placed on in state
Candidates(state) ==
  {rc \in BoardCells : rc \notin Blocked /\ ~Occupied(state, rc[1], rc[2])}

\* the scenario of the specification: player 1 holds these cells of row 0
ScenarioCells == {<<0, 0>>, <<0, 1>>, <<0, 2>>, <<0, 3>>, <<0, 5>>}

ScenarioBoard(cells) ==
  [DEFAULT_STATE EXCEPT !.pieces =
     [i \in 1..Cardinality(cells) |->
        LET rc == CHOOSE x \in cells : Cardinality({y \in cells : y[2] < x[2]}) = i - 1
        IN [row |-> rc[1], col |-> rc[2], player |-> 1]]]

\* on the scenario board alone: placing any one of its five pieces last
\* completes no run, and (0,4) then completes one
ScenarioHolds ==
  /\ \A rc \in ScenarioCells :
       ~made_five_in_a_row(ScenarioBoard(ScenarioCells \ {rc}), rc[1], rc[2], 1)
  /\ made_five_in_a_row(ScenarioBoard(ScenarioCells), 0, 4, 1)

\* the board was just produced: the initial board or the one after an
\* accepted move (every other request leaves the board as it was, or empty)
BoardIsNew == request.op = "none" \/ (request.op = "move" /\ response.code = 200)

\* C17: for every reachable board, every free placeable cell and every
\* owner, run detection is true exactly when the cell, once claimed, lies on
\* five consecutive same-owner cells of one axis (a gap, an opposing piece, a
\* blocked cell or the edge ends a run). With player 1 on (0,0), (0,1),
\* (0,2), (0,3), (0,5), none of those placements completes a run and (0,4)
\* does.
C17_RunDetectionMatchesReference ==
  /\ BoardIsNew =>
       \A rc \in Candidates(cur), pid \in {1, 2} :
         made_five_in_a_row(cur, rc[1], rc[2], pid)
           <=> OnRun(WithPiece(cur, rc[1], rc[2], pid), rc[1], rc[2], pid)
  /\ ScenarioHolds
  /\ (ScenarioCells \subseteq {rc \in BoardCells : Owns(cur, rc[1], rc[2], 1)}
        /\ ~Occupied(cur, 0, 4))
       => made_five_in_a_row(cur, 0, 4, 1)

\* the scenario on a reachable board: (0,5) was placed without a bonus and
\* (0,4) is still free
C17_Witness ==
  /\ ScenarioCells \subseteq {rc \in BoardCells : Owns(cur, rc[1], rc[2], 1)}
  /\ ~Occupied(cur, 0, 4)
  /\ ~cur.bonus_available /\ cur.turn = 1
  /\ made_five_in_a_row(cur, 0, 4, 1)
  /\ ~made_five_in_a_row(cur, 0, 4, 2)

\* the requests of the threads handled one after the other in the given order,
\* starting from the initial file: the outcome after the first k of them
RECURSIVE SerialOutcome(_, _)
SerialOutcome(order, k) ==
  IF k = 0 THEN Outcome(FALSE, DEFAULT_STATE, Reply(0, ""))
  ELSE LET prev == SerialOutcome(order, k - 1)
       IN move_handler(prev.exists, prev.doc, inflight[order[k]].row, inflight[order[k]].col)

SerialOrders == {o \in [Threads -> Threads] : \A i, j \in Threads : (i # j) => o[i] # o[j]}

AllDone == \A t \in Threads : inflight[t].pc = "done"

\* C16: when move requests are handled concurrently, the file and the replies
\* are those of handling the same requests in some serial order; in
\* particular every move answered as accepted is among the persisted pieces
\* and no two pieces are placed in the same turn.
C16_ConcurrentMovesSerializable ==
  AllDone =>
    /\ \E o \in SerialOrders :
         /\ SerialOutcome(o, MaxThreads).doc = cur
         /\ \A k \in Threads : inflight[o[k]].reply = SerialOutcome(o, k).response
    /\ \A t \in Threads :
         inflight[t].reply.code = 200
           => Occupied(cur, inflight[t].row, inflight[t].col)

\* C18: while the game is not over some cell can still be claimed; every
\* accepted move, and nothing else, adds exactly one piece; if legal moves
\* keep being made the game is over after exactly 76 accepted moves, and from
\* then on no move is accepted.
C18_GameEndsAfterAllCells ==
  /\ [](~cur.game_over => Candidates(cur) # {})
  /\ [][(Placed => Len(cur'.pieces) = Len(cur.pieces) + 1)
        /\ (cur'.pieces # cur.pieces => Placed)
        /\ (cur.game_over => (~Placed /\ cur'.game_over))]_vars
  /\ [](cur.game_over <=> Len(cur.pieces) = TotalPlaceable)
  /\ <>(cur.game_over /\ Len(cur.pieces) = TotalPlaceable)

C18_Witness ==
  /\ cur.game_over /\ Len(cur.pieces) = TotalPlaceable
  /\ request.op = "move" /\ response = Reply(400, "Game is over.")
  /\ <<request.row, request.col>> = <<LastPiece(cur).row, LastPiece(cur).col>>

====
